---------------------------- MODULE Spec2Model ----------------------------
(***************************************************************************)
(* Model of the App component of src/App.tsx: the two-stage generation     *)
(* flow of handleGenerate (text call, then a conditional image call whose  *)
(* result is merged into the stored GeneratedContent) and the scheduling   *)
(* store of handleConfirmSchedule.                                         *)
(*                                                                         *)
(* JavaScript runs one synchronous segment at a time: a handler runs from  *)
(* its entry to its first await, and a continuation runs from the          *)
(* settlement of the awaited promise to the next await or to the end of    *)
(* the function.  Each such segment is one action.  React applies the      *)
(* state updates of a segment together, so the primed variables of an      *)
(* action are the component state after the segment.                       *)
(***************************************************************************)
EXTENDS Integers, Sequences, FiniteSets, TLC

(***************************************************************************)
(* Bounds of the model.                                                    *)
(***************************************************************************)
MaxInvocations == 2   \* handleGenerate invocations that pass validation
MaxPosts == 2         \* scheduled posts the store may hold
MaxTime == 2          \* scheduledTime values are 1..MaxTime
MaxClock == 1         \* Date.now() readings are 1..MaxClock

VARIABLES
    articleExcerpt,       \* useState('')            sequence of characters
    generatedContent,     \* useState(null)          None or Some(content)
    isLoading,            \* useState(false)
    isImageLoading,       \* useState(false)
    error,                \* useState(null)          None or Some(message)
    scheduledPosts,       \* useState([])
    selectedPlatforms,    \* useState({all true})
    isScheduleModalOpen,  \* useState(false)
    postToSchedule,       \* useState(null)          None or Some([platform, content])
    inv,                  \* the handleGenerate invocations: position and locals
    resultOwner,          \* history: invocation whose text result is stored (0: none)
    overlap,              \* history: the other handleGenerate calls an invocation met
    confirmations         \* history: handleConfirmSchedule calls that had a pending post

vars == <<articleExcerpt, generatedContent, isLoading, isImageLoading, error,
          scheduledPosts, selectedPlatforms, isScheduleModalOpen, postToSchedule,
          inv, resultOwner, overlap, confirmations>>

genVars == <<generatedContent, isLoading, isImageLoading, error, inv, resultOwner,
             overlap>>
inputVars == <<articleExcerpt, selectedPlatforms>>
schedVars == <<scheduledPosts, isScheduleModalOpen, postToSchedule, confirmations>>

(***************************************************************************)
(* A nullable value (T | null) is None or Some(x).                         *)
(***************************************************************************)
None == <<>>
Some(x) == <<x>>
Get(o) == o[1]

(***************************************************************************)
(* Values.                                                                 *)
(***************************************************************************)
Platform == {"linkedinPost", "facebookPost", "twitterPost", "graphicText"}
PostPlatform == {"LinkedIn", "Twitter", "Facebook", "Graphic Text"}

\* Excerpts the user may type: empty, whitespace only, and text with
\* surrounding whitespace.
Whitespace == {" ", "\n", "\t"}
Excerpts == {<<>>, <<" ", "\n">>, <<" ", "a", " ">>}

\* String.prototype.trim: drop leading and trailing whitespace.
RECURSIVE TrimStart(_)
TrimStart(s) ==
    IF s = <<>> THEN <<>>
    ELSE IF Head(s) \in Whitespace THEN TrimStart(Tail(s))
    ELSE s

RECURSIVE TrimEnd(_)
TrimEnd(s) ==
    IF s = <<>> THEN <<>>
    ELSE IF s[Len(s)] \in Whitespace THEN TrimEnd(SubSeq(s, 1, Len(s) - 1))
    ELSE s

\* Mutant: the excerpt is tested without trimming it.
TrimNothing(s) == s

Trim(s) == TrimEnd(TrimStart(s))

\* GeneratedContent values the text service may resolve with.  An optional
\* field is present iff it is in the record's domain.
ContentAll ==
    [linkedinPost |-> [copy |-> "L1"],
     facebookPost |-> [copy |-> "F1", hashtags |-> <<"#a", "#b">>],
     twitterPost  |-> [copy |-> "T1", hashtags |-> <<"#c">>],
     graphicText  |-> [text |-> "g1"]]
ContentLinkedinOnly ==
    [linkedinPost |-> [copy |-> "L3"]]
ContentEmptyGraphic ==
    [facebookPost |-> [copy |-> "F4", hashtags |-> <<"#d">>],
     graphicText  |-> [text |-> ""]]
TextResults == {ContentAll, ContentLinkedinOnly, ContentEmptyGraphic}

\* Values the text call may reject with: an Error carrying a message, or a
\* thrown value that is no Error.
TextFailures == {[isError |-> TRUE, message |-> "quota exceeded"], [isError |-> FALSE]}

ExcerptRequiredMessage == "Article excerpt is required."
NoPlatformMessage == "Please select at least one platform."
UnknownErrorMessage == "An unknown error occurred."

\* err instanceof Error ? err.message : 'An unknown error occurred.'
ErrorMessage(err) == IF err.isError THEN err.message ELSE UnknownErrorMessage

\* The image reference the image service resolves call i with: a reference
\* to an image made by that call from the caption it was given.
ImageUrl(i, caption) == "img" \o ToString(i) \o ":" \o caption

\* Mutant: the image stage is entered whenever graphicText is present.
HasGraphicTextField(c) == "graphicText" \in DOMAIN c

\* content.graphicText?.text is truthy
HasGraphicText(c) == "graphicText" \in DOMAIN c /\ c.graphicText.text /= ""

\* Object.values(selectedPlatforms).some(v => v)
AtLeastOnePlatformSelected(sel) == \E p \in Platform : sel[p]

\* Mutant: the updater spreads into graphicText without the guard.
MergeImageUnguarded(prevContent, imageUrl) ==
    IF prevContent = None THEN Some([graphicText |-> [imageUrl |-> imageUrl]])
    ELSE IF "graphicText" \notin DOMAIN Get(prevContent)
    THEN Some([f \in DOMAIN Get(prevContent) \cup {"graphicText"} |->
                 IF f = "graphicText" THEN [imageUrl |-> imageUrl]
                 ELSE Get(prevContent)[f]])
    ELSE Some([Get(prevContent) EXCEPT !.graphicText =
                 [text |-> Get(prevContent).graphicText.text, imageUrl |-> imageUrl]])

\* Mutant: the updater replaces graphicText instead of spreading it.
MergeImageDropsText(prevContent, imageUrl) ==
    IF prevContent = None \/ "graphicText" \notin DOMAIN Get(prevContent)
    THEN prevContent
    ELSE Some([Get(prevContent) EXCEPT !.graphicText = [imageUrl |-> imageUrl]])

\* The updater of setGeneratedContent in the image stage.
MergeImage(prevContent, imageUrl) ==
    IF prevContent = None \/ "graphicText" \notin DOMAIN Get(prevContent)
    THEN prevContent
    ELSE Some([Get(prevContent) EXCEPT !.graphicText =
                 [text |-> Get(prevContent).graphicText.text, imageUrl |-> imageUrl]])

(***************************************************************************)
(* [...prev, newPost].sort((a, b) => a.scheduledTime - b.scheduledTime):   *)
(* Array.prototype.sort is stable, so the result is the one a stable       *)
(* insertion sort of the whole array gives.                                *)
(***************************************************************************)
RECURSIVE InsertByTime(_, _)
InsertByTime(sorted, p) ==
    IF sorted = <<>> THEN <<p>>
    ELSE IF Head(sorted).scheduledTime - p.scheduledTime <= 0
         THEN <<Head(sorted)>> \o InsertByTime(Tail(sorted), p)
         ELSE <<p>> \o sorted

\* Mutant: the new post is appended and the array is not sorted.
SortNothing(posts) == posts

RECURSIVE SortByScheduledTime(_)
SortByScheduledTime(posts) ==
    IF posts = <<>> THEN <<>>
    ELSE InsertByTime(SortByScheduledTime(SubSeq(posts, 1, Len(posts) - 1)),
                      posts[Len(posts)])

\* Inputs of the scheduling handlers.
PostContents == {"L1", "F1 #a #b"}
Times == 1..MaxTime
Clock == 1..MaxClock

(***************************************************************************)
(* handleGenerate invocations.  pc is the invocation's position:           *)
(*   "idle" not started, "awaitText" suspended at the text call,           *)
(*   "awaitImage" suspended at the image call, "done" returned.            *)
(* content is the local const content and imageArg the argument of the     *)
(* pending image call (both live while the image call is pending).         *)
(* History: imageCalls counts the image calls the invocation has made and   *)
(* outcome records how its calls settled.  overlap[i] records the other    *)
(* handleGenerate calls invocation i met while in flight:                  *)
(*   "none"    none was in flight when it started, none was made since;    *)
(*   "earlier" one was in flight when it started, none was made since;     *)
(*   "later"   another handleGenerate call was made after it started.      *)
(***************************************************************************)
Invocations == 1..MaxInvocations
IdleInvocation ==
    [pc |-> "idle", content |-> None, imageArg |-> None, imageCalls |-> 0,
     outcome |-> "none"]
InFlight(i) == inv[i].pc \in {"awaitText", "awaitImage"}
Solo(i) == overlap[i] = "none"

\* overlap after a handleGenerate call that fails validation
OverlapAfterCall ==
    [j \in Invocations |-> IF InFlight(j) THEN "later" ELSE overlap[j]]

\* overlap after the handleGenerate call that starts invocation i
OverlapAfterStart(i) ==
    [j \in Invocations |->
        IF j = i THEN (IF \E k \in Invocations : InFlight(k) THEN "earlier" ELSE "none")
        ELSE IF InFlight(j) THEN "later"
        ELSE overlap[j]]

Init ==
    /\ articleExcerpt = <<>>
    /\ generatedContent = None
    /\ isLoading = FALSE
    /\ isImageLoading = FALSE
    /\ error = None
    /\ scheduledPosts = <<>>
    /\ selectedPlatforms = [p \in Platform |-> TRUE]
    /\ isScheduleModalOpen = FALSE
    /\ postToSchedule = None
    /\ inv = [i \in Invocations |-> IdleInvocation]
    /\ resultOwner = 0
    /\ overlap = [i \in Invocations |-> "none"]
    /\ confirmations = 0

(***************************************************************************)
(* Input handlers.                                                         *)
(***************************************************************************)
SetArticleExcerpt(e) ==
    /\ articleExcerpt' = e
    /\ UNCHANGED <<selectedPlatforms, genVars, schedVars>>

HandlePlatformToggle(p) ==
    /\ selectedPlatforms' = [selectedPlatforms EXCEPT ![p] = ~selectedPlatforms[p]]
    /\ UNCHANGED <<articleExcerpt, genVars, schedVars>>

(***************************************************************************)
(* handleGenerate, entry to the first await.                               *)
(***************************************************************************)
GenerateExcerptRequired ==
    /\ Trim(articleExcerpt) = <<>>
    /\ error' = Some(ExcerptRequiredMessage)
    /\ overlap' = OverlapAfterCall
    /\ UNCHANGED <<generatedContent, isLoading, isImageLoading, inv, resultOwner,
                   inputVars, schedVars>>

GenerateNoPlatform ==
    /\ Trim(articleExcerpt) /= <<>>
    /\ ~AtLeastOnePlatformSelected(selectedPlatforms)
    /\ error' = Some(NoPlatformMessage)
    /\ overlap' = OverlapAfterCall
    /\ UNCHANGED <<generatedContent, isLoading, isImageLoading, inv, resultOwner,
                   inputVars, schedVars>>

\* Mutant: the previous result is not cleared on entry.
GenerateStartKeepsContent(i) ==
    /\ Trim(articleExcerpt) /= <<>>
    /\ AtLeastOnePlatformSelected(selectedPlatforms)
    /\ inv[i].pc = "idle"
    /\ \A j \in Invocations : j < i => inv[j].pc /= "idle"
    /\ isLoading' = TRUE
    /\ error' = None
    /\ isImageLoading' = FALSE
    /\ inv' = [inv EXCEPT ![i] = [IdleInvocation EXCEPT !.pc = "awaitText"]]
    /\ overlap' = OverlapAfterStart(i)
    /\ UNCHANGED <<generatedContent, resultOwner, inputVars, schedVars>>

\* Invocations are numbered in the order they start.
GenerateStart(i) ==
    /\ Trim(articleExcerpt) /= <<>>
    /\ AtLeastOnePlatformSelected(selectedPlatforms)
    /\ inv[i].pc = "idle"
    /\ \A j \in Invocations : j < i => inv[j].pc /= "idle"
    /\ isLoading' = TRUE
    /\ error' = None
    /\ generatedContent' = None
    /\ isImageLoading' = FALSE
    /\ resultOwner' = 0
    /\ inv' = [inv EXCEPT ![i] = [IdleInvocation EXCEPT !.pc = "awaitText"]]
    /\ overlap' = OverlapAfterStart(i)
    /\ UNCHANGED <<inputVars, schedVars>>

HandleGenerate ==
    \/ GenerateExcerptRequired
    \/ GenerateNoPlatform
    \/ \E i \in Invocations : GenerateStart(i)

(***************************************************************************)
(* handleGenerate, from the settlement of the text call.                   *)
(***************************************************************************)
\* Mutant: the generation-in-progress flag is cleared before the image stage.
TextSuccessClearsLoading(i, content) ==
    /\ inv[i].pc = "awaitText"
    /\ HasGraphicText(content)
    /\ generatedContent' = Some(content)
    /\ resultOwner' = i
    /\ isImageLoading' = TRUE
    /\ isLoading' = FALSE
    /\ inv' = [inv EXCEPT ![i] = [@ EXCEPT !.pc = "awaitImage",
                                           !.content = Some(content),
                                           !.imageArg = Some(content.graphicText.text),
                                           !.imageCalls = @ + 1]]
    /\ UNCHANGED <<error, overlap, inputVars, schedVars>>

\* Mutant: the image call is made without setting the image-in-progress flag.
TextSuccessImageFlagNotSet(i, content) ==
    /\ inv[i].pc = "awaitText"
    /\ HasGraphicText(content)
    /\ generatedContent' = Some(content)
    /\ resultOwner' = i
    /\ inv' = [inv EXCEPT ![i] = [@ EXCEPT !.pc = "awaitImage",
                                           !.content = Some(content),
                                           !.imageArg = Some(content.graphicText.text),
                                           !.imageCalls = @ + 1]]
    /\ UNCHANGED <<isLoading, isImageLoading, error, overlap, inputVars, schedVars>>

TextSuccessWithGraphic(i, content) ==
    /\ inv[i].pc = "awaitText"
    /\ HasGraphicText(content)
    /\ generatedContent' = Some(content)
    /\ resultOwner' = i
    /\ isImageLoading' = TRUE
    /\ inv' = [inv EXCEPT ![i] = [@ EXCEPT !.pc = "awaitImage",
                                           !.content = Some(content),
                                           !.imageArg = Some(content.graphicText.text),
                                           !.imageCalls = @ + 1]]
    /\ UNCHANGED <<isLoading, error, overlap, inputVars, schedVars>>

TextSuccessNoGraphic(i, content) ==
    /\ inv[i].pc = "awaitText"
    /\ ~HasGraphicText(content)
    /\ generatedContent' = Some(content)
    /\ resultOwner' = i
    /\ isLoading' = FALSE
    /\ inv' = [inv EXCEPT ![i] = [@ EXCEPT !.pc = "done", !.outcome = "noImage"]]
    /\ UNCHANGED <<isImageLoading, error, overlap, inputVars, schedVars>>

TextFailure(i, err) ==
    /\ inv[i].pc = "awaitText"
    /\ error' = Some(ErrorMessage(err))
    /\ isLoading' = FALSE
    /\ inv' = [inv EXCEPT ![i] = [@ EXCEPT !.pc = "done", !.outcome = "textFailed"]]
    /\ UNCHANGED <<generatedContent, resultOwner, isImageLoading, overlap, inputVars, schedVars>>

(***************************************************************************)
(* handleGenerate, from the settlement of the image call.                  *)
(***************************************************************************)
\* Mutant: an image whose invocation no longer owns the stored result is dropped.
ImageSuccessDiscardsStale(i) ==
    /\ inv[i].pc = "awaitImage"
    /\ generatedContent' =
         IF resultOwner = i
         THEN MergeImage(generatedContent, ImageUrl(i, Get(inv[i].imageArg)))
         ELSE generatedContent
    /\ isImageLoading' = FALSE
    /\ isLoading' = FALSE
    /\ inv' = [inv EXCEPT ![i] = [@ EXCEPT !.pc = "done", !.content = None,
                                           !.imageArg = None, !.outcome = "imageOk"]]
    /\ UNCHANGED <<resultOwner, error, overlap, inputVars, schedVars>>

ImageSuccess(i) ==
    /\ inv[i].pc = "awaitImage"
    /\ generatedContent' = MergeImage(generatedContent, ImageUrl(i, Get(inv[i].imageArg)))
    /\ isImageLoading' = FALSE
    /\ isLoading' = FALSE
    /\ inv' = [inv EXCEPT ![i] = [@ EXCEPT !.pc = "done", !.content = None,
                                           !.imageArg = None, !.outcome = "imageOk"]]
    /\ UNCHANGED <<resultOwner, error, overlap, inputVars, schedVars>>

\* Mutant: the image failure is surfaced like a text failure.
ImageFailureSurfaced(i) ==
    /\ inv[i].pc = "awaitImage"
    /\ error' = Some(UnknownErrorMessage)
    /\ isImageLoading' = FALSE
    /\ isLoading' = FALSE
    /\ inv' = [inv EXCEPT ![i] = [@ EXCEPT !.pc = "done", !.content = None,
                                           !.imageArg = None, !.outcome = "imageFailed"]]
    /\ UNCHANGED <<generatedContent, resultOwner, overlap, inputVars, schedVars>>

\* Mutant: the image-in-progress flag is cleared on success only (no finally).
ImageFailureKeepsFlag(i) ==
    /\ inv[i].pc = "awaitImage"
    /\ isLoading' = FALSE
    /\ inv' = [inv EXCEPT ![i] = [@ EXCEPT !.pc = "done", !.content = None,
                                           !.imageArg = None, !.outcome = "imageFailed"]]
    /\ UNCHANGED <<generatedContent, resultOwner, error, isImageLoading, overlap,
                   inputVars, schedVars>>

ImageFailure(i) ==
    /\ inv[i].pc = "awaitImage"
    /\ isImageLoading' = FALSE
    /\ isLoading' = FALSE
    /\ inv' = [inv EXCEPT ![i] = [@ EXCEPT !.pc = "done", !.content = None,
                                           !.imageArg = None, !.outcome = "imageFailed"]]
    /\ UNCHANGED <<generatedContent, resultOwner, error, overlap, inputVars, schedVars>>

(***************************************************************************)
(* Scheduling handlers.                                                    *)
(***************************************************************************)
HandleOpenScheduleModal(platform, content) ==
    /\ postToSchedule' = Some([platform |-> platform, content |-> content])
    /\ isScheduleModalOpen' = TRUE
    /\ UNCHANGED <<scheduledPosts, confirmations, inputVars, genVars>>

\* onClose of ScheduleModal
CloseScheduleModal ==
    /\ isScheduleModalOpen' = FALSE
    /\ UNCHANGED <<scheduledPosts, postToSchedule, confirmations, inputVars, genVars>>

HandleConfirmScheduleNoPost ==
    /\ postToSchedule = None
    /\ UNCHANGED vars

HandleConfirmSchedule(scheduledTime, now) ==
    /\ postToSchedule /= None
    /\ Len(scheduledPosts) < MaxPosts
    /\ LET newPost == [id            |-> ToString(now),
                       platform      |-> Get(postToSchedule).platform,
                       content       |-> Get(postToSchedule).content,
                       scheduledTime |-> scheduledTime]
       IN scheduledPosts' = SortByScheduledTime(Append(scheduledPosts, newPost))
    /\ isScheduleModalOpen' = FALSE
    /\ postToSchedule' = None
    /\ confirmations' = confirmations + 1
    /\ UNCHANGED <<inputVars, genVars>>

(***************************************************************************)
(* Next-state relations and specifications.                                *)
(***************************************************************************)
NextInput ==
    \/ \E e \in Excerpts : SetArticleExcerpt(e)
    \/ \E p \in Platform : HandlePlatformToggle(p)

NextGenerate ==
    \/ HandleGenerate
    \/ \E i \in Invocations, c \in TextResults : TextSuccessWithGraphic(i, c)
    \/ \E i \in Invocations, c \in TextResults : TextSuccessNoGraphic(i, c)
    \/ \E i \in Invocations, err \in TextFailures : TextFailure(i, err)
    \/ \E i \in Invocations : ImageSuccess(i)
    \/ \E i \in Invocations : ImageFailure(i)

NextSchedule ==
    \/ \E platform \in PostPlatform, content \in PostContents :
          HandleOpenScheduleModal(platform, content)
    \/ CloseScheduleModal
    \/ HandleConfirmScheduleNoPost
    \/ \E scheduledTime \in Times, now \in Clock :
          HandleConfirmSchedule(scheduledTime, now)

Next == NextInput \/ NextGenerate \/ NextSchedule

\* The whole component: every handler may run in any order, handleGenerate
\* also while an earlier invocation is in flight.
Spec == Init /\ [][Next]_vars

\* The scheduling store on its own.
SpecSched == Init /\ [][NextSchedule]_vars

\* A scheduling store as the scheduling handlers leave it after one
\* confirmation.
StoreAtStart ==
    <<[id |-> "1", platform |-> "LinkedIn", content |-> "L1", scheduledTime |-> 1]>>

InitGen ==
    /\ articleExcerpt = <<>>
    /\ generatedContent = None
    /\ isLoading = FALSE
    /\ isImageLoading = FALSE
    /\ error = None
    /\ scheduledPosts = StoreAtStart
    /\ selectedPlatforms = [p \in Platform |-> TRUE]
    /\ isScheduleModalOpen = FALSE
    /\ postToSchedule = None
    /\ inv = [i \in Invocations |-> IdleInvocation]
    /\ resultOwner = 0
    /\ overlap = [i \in Invocations |-> "none"]
    /\ confirmations = Len(scheduledPosts)

NextGen == NextInput \/ NextGenerate

\* The generation flow beside a scheduling store that holds a post.
SpecGen == InitGen /\ [][NextGen]_vars

(***************************************************************************)
(* The generation flow when every started call settles: the inputs are     *)
(* as the user left them, and a pending text or image call is eventually   *)
(* resolved or rejected.                                                   *)
(***************************************************************************)
InitLive ==
    /\ articleExcerpt \in Excerpts
    /\ generatedContent = None
    /\ isLoading = FALSE
    /\ isImageLoading = FALSE
    /\ error = None
    /\ scheduledPosts = <<>>
    /\ selectedPlatforms \in [Platform -> BOOLEAN]
    /\ isScheduleModalOpen = FALSE
    /\ postToSchedule = None
    /\ inv = [i \in Invocations |-> IdleInvocation]
    /\ resultOwner = 0
    /\ overlap = [i \in Invocations |-> "none"]
    /\ confirmations = 0

TextSettles(i) ==
    \/ \E c \in TextResults : TextSuccessWithGraphic(i, c)
    \/ \E c \in TextResults : TextSuccessNoGraphic(i, c)
    \/ \E err \in TextFailures : TextFailure(i, err)

ImageSettles(i) == ImageSuccess(i) \/ ImageFailure(i)

EveryCallSettles ==
    \A i \in Invocations : WF_vars(TextSettles(i)) /\ WF_vars(ImageSettles(i))

SpecLive == InitLive /\ [][NextGenerate]_vars /\ EveryCallSettles

(***************************************************************************)
(* The generation flow as the rendered page drives it: the Generate button *)
(* is the only caller of handleGenerate and is disabled while isLoading is  *)
(* set, so a click reaches the handler only when the flag is false.        *)
(***************************************************************************)
\* Mutant: the button is not disabled while a generation is in progress.
ClickGenerateUngated == HandleGenerate

\* onClick={handleGenerate} disabled={isLoading}
ClickGenerate == ~isLoading /\ HandleGenerate

NextUI ==
    \/ NextInput
    \/ ClickGenerate
    \/ \E i \in Invocations, c \in TextResults : TextSuccessWithGraphic(i, c)
    \/ \E i \in Invocations, c \in TextResults : TextSuccessNoGraphic(i, c)
    \/ \E i \in Invocations, err \in TextFailures : TextFailure(i, err)
    \/ \E i \in Invocations : ImageSuccess(i)
    \/ \E i \in Invocations : ImageFailure(i)

SpecUI == InitGen /\ [][NextUI]_vars

(***************************************************************************)
(* Properties.                                                             *)
(***************************************************************************)
AllWhitespace(s) == \A k \in 1..Len(s) : s[k] \in Whitespace
NoPlatformSelected == \A p \in Platform : ~selectedPlatforms[p]
ValidationMessages == {Some(ExcerptRequiredMessage), Some(NoPlatformMessage)}
NonEmptyGraphicText(c) == "graphicText" \in DOMAIN c /\ c.graphicText.text /= ""
StoredHasGraphicText ==
    generatedContent /= None /\ "graphicText" \in DOMAIN Get(generatedContent)
NoneInFlight == \A i \in Invocations : ~InFlight(i)

\* C1: a handleGenerate call made with an excerpt that is blank after
\* trimming, or with no platform selected, stores a validation message in
\* the error slot, starts no service call, and leaves the stored result, both
\* loading flags and the scheduled posts as they were.
C1_ValidationFailureOnlySetsError ==
    [][(HandleGenerate /\ (AllWhitespace(articleExcerpt) \/ NoPlatformSelected)) =>
         /\ error' = Some(IF AllWhitespace(articleExcerpt)
                          THEN "Article excerpt is required."
                          ELSE "Please select at least one platform.")
         /\ inv' = inv
         /\ generatedContent' = generatedContent
         /\ isLoading' = isLoading
         /\ isImageLoading' = isImageLoading
         /\ scheduledPosts' = scheduledPosts]_vars

\* A handleGenerate call made after an invocation had returned (none was
\* made while it was in flight) failed validation: its message is shown
\* beside the result that invocation stored and the post in the store.
C1_Witness ==
    \E i \in Invocations :
        /\ inv[i].outcome = "noImage" /\ Solo(i)
        /\ \A j \in Invocations : j /= i => inv[j].pc = "idle"
        /\ error \in ValidationMessages
        /\ generatedContent = Some(ContentLinkedinOnly)
        /\ scheduledPosts /= <<>>

\* C2 as stated: isLoading is cleared in the step in which the text call of
\* an invocation settles, whether or not an image stage follows.
C2_LoadingClearedWhenTextSettles ==
    [][\A i \in Invocations :
          (inv[i].pc = "awaitText" /\ inv'[i].pc /= "awaitText") => ~isLoading']_vars

\* C2 amended: isLoading is cleared in the step in which the invocation
\* returns: when the text call settles without an image stage following, and
\* otherwise when the image call settles.  A text success that starts the
\* image stage leaves the flag as it is, so during the image stage of an
\* invocation that no other invocation overlaps both flags are set.
C2_LoadingClearedWhenInvocationReturns ==
    /\ [](\A i \in Invocations :
            (inv[i].pc = "awaitImage" /\ Solo(i)) => (isLoading /\ isImageLoading))
    /\ [][\A i \in Invocations :
            /\ (inv[i].pc = "awaitText" /\ inv'[i].pc = "awaitImage") =>
                  isLoading' = isLoading
            /\ (inv[i].pc /= "done" /\ inv'[i].pc = "done") => ~isLoading']_vars

\* The text result is stored and visible, the image call is pending, and
\* both flags are set.
C2_Witness ==
    \E i \in Invocations :
        /\ inv[i].pc = "awaitImage" /\ Solo(i)
        /\ generatedContent = inv[i].content
        /\ isLoading /\ isImageLoading

\* C3: an invocation calls the image service only in the step in which its
\* text call succeeds with a present, non-empty graphicText.text: once, with
\* that text, the text result being stored by the same step; after a text
\* failure or a result without such a text it never calls it.
C3_ImageCallOnceAfterTextStored ==
    /\ [](\A i \in Invocations :
            /\ inv[i].imageCalls <= 1
            /\ inv[i].pc = "awaitImage" => inv[i].imageCalls = 1
            /\ inv[i].outcome \in {"textFailed", "noImage"} => inv[i].imageCalls = 0)
    /\ [][\A i \in Invocations :
            /\ \A c \in TextResults :
                 (TextSuccessWithGraphic(i, c) \/ TextSuccessNoGraphic(i, c)) =>
                    /\ generatedContent' = Some(c)
                    /\ IF NonEmptyGraphicText(c)
                       THEN /\ inv'[i].pc = "awaitImage"
                            /\ inv'[i].imageCalls = 1
                            /\ inv'[i].imageArg = Some(c.graphicText.text)
                       ELSE /\ inv'[i].pc = "done"
                            /\ inv'[i].imageCalls = 0
            /\ \A err \in TextFailures :
                 TextFailure(i, err) => (inv'[i].pc = "done" /\ inv'[i].imageCalls = 0)
            /\ inv'[i].imageCalls /= inv[i].imageCalls =>
                 (inv[i].pc = "awaitText" /\ inv'[i].pc = "awaitImage")]_vars

\* One invocation returned without an image call, another has its one image
\* call pending with the stored caption as argument.
C3_Witness ==
    \E i, j \in Invocations :
        /\ inv[j].outcome = "noImage" /\ inv[j].imageCalls = 0
        /\ inv[i].pc = "awaitImage" /\ inv[i].imageCalls = 1
        /\ inv[i].imageArg = Some("g1")
        /\ generatedContent = Some(ContentAll)

\* What C4 says of the step in which the text call rejects with err.
TextFailureStoresMessage(err) ==
    /\ error' = Some(IF err.isError THEN err.message ELSE "An unknown error occurred.")
    /\ ~isLoading'
TextFailureLeavesNoResult ==
    /\ generatedContent' = None
    /\ ~isImageLoading'

\* C4 as stated: whenever the text call of an invocation fails, the error
\* slot holds the failure's message (the generic one for a failure without
\* message), the stored result is null, and both flags are false.
C4_TextFailureLeavesNoResult ==
    [][\A i \in Invocations, err \in TextFailures :
          TextFailure(i, err) =>
             (TextFailureStoresMessage(err) /\ TextFailureLeavesNoResult)]_vars

\* C4 amended: whenever the text call of an invocation fails, the error slot
\* holds the failure's message and isLoading is cleared; if no other
\* invocation has been in flight since this one started, the stored result
\* is null (also when an earlier generation had stored one) and
\* isImageLoading is false.
C4_TextFailureOfLoneInvocation ==
    [][\A i \in Invocations, err \in TextFailures :
          TextFailure(i, err) =>
             /\ TextFailureStoresMessage(err)
             /\ Solo(i) => TextFailureLeavesNoResult]_vars

\* A first generation stored a result; the second, started after the first
\* had returned, failed: its message is shown and no result is kept.
C4_Witness ==
    \E i, j \in Invocations :
        /\ i < j
        /\ inv[i].outcome \in {"noImage", "imageOk", "imageFailed"}
        /\ inv[j].outcome = "textFailed" /\ Solo(j)
        /\ error = Some("quota exceeded")
        /\ generatedContent = None
        /\ ~isLoading /\ ~isImageLoading

\* What C5 says of the step in which the image call of invocation i rejects.
ImageFailureKeepsTextResult(i) ==
    /\ generatedContent' = inv[i].content
    /\ generatedContent' /= None
    /\ "imageUrl" \notin DOMAIN Get(generatedContent').graphicText
    /\ error' = None
    /\ ~isImageLoading'

\* C5 as stated: when the image call of an invocation fails and no other
\* handleGenerate call has been made since that invocation started, the stored
\* result is the invocation's text result without imageUrl, the error slot
\* is null and isImageLoading is false.
C5_ImageFailureNoneStartedMeanwhile ==
    [][\A i \in Invocations :
          (ImageFailure(i) /\ overlap[i] /= "later") =>
             ImageFailureKeepsTextResult(i)]_vars

\* C5 amended: the same, when no other invocation has been in flight at any
\* time since that invocation started (none started meanwhile, and none that
\* had started before was still pending).
C5_ImageFailureOfLoneInvocation ==
    [][\A i \in Invocations :
          (ImageFailure(i) /\ Solo(i)) => ImageFailureKeepsTextResult(i)]_vars

\* The image call of a lone invocation failed: its text result is stored
\* without imageUrl and no error is shown.
C5_Witness ==
    \E i \in Invocations :
        /\ inv[i].outcome = "imageFailed" /\ Solo(i)
        /\ resultOwner = i
        /\ generatedContent = Some(ContentAll)
        /\ error = None
        /\ ~isImageLoading

\* C6: when an image call succeeds while the stored result is null or has no
\* graphicText field, the stored result and the error slot stay as they are.
C6_MergeIsNoOpWithoutGraphicText ==
    [][\A i \in Invocations :
          (ImageSuccess(i) /\ ~StoredHasGraphicText) =>
             (generatedContent' = generatedContent /\ error' = error)]_vars

\* The image call of an invocation succeeded after a newer invocation,
\* started while it was in flight, had cleared the result and replaced it by
\* one without graphicText: the newer result is stored as the text call
\* returned it.
C6_Witness ==
    \E i, j \in Invocations :
        /\ i < j
        /\ inv[i].outcome = "imageOk" /\ overlap[i] = "later"
        /\ inv[j].outcome = "noImage" /\ overlap[j] = "earlier"
        /\ resultOwner = j
        /\ generatedContent = Some(ContentLinkedinOnly)
        /\ error = None

\* C7: the merge has no staleness check.  When the image call of invocation
\* i succeeds while the stored result is the text result of another
\* invocation and has a graphicText field, that result gets the image of
\* call i, made from the caption of invocation i.
C7_StaleImageLandsOnNewerResult ==
    [][\A i \in Invocations :
          (ImageSuccess(i) /\ StoredHasGraphicText /\ resultOwner /= i) =>
             /\ resultOwner' = resultOwner
             /\ generatedContent' /= None
             /\ Get(generatedContent').graphicText =
                  [text     |-> Get(generatedContent).graphicText.text,
                   imageUrl |-> ImageUrl(i, Get(inv[i].imageArg))]]_vars

\* The stored result is the text result of the second invocation, carrying
\* the image the first invocation's call made from the first invocation's
\* caption.
C7_Witness ==
    /\ resultOwner = 2
    /\ inv[1].outcome = "imageOk"
    /\ generatedContent =
         Some([ContentAll EXCEPT
                 !.graphicText = [text |-> "g1", imageUrl |-> ImageUrl(1, "g1")]])

RemoveAt(seq, k) == SubSeq(seq, 1, k - 1) \o SubSeq(seq, k + 1, Len(seq))
SortedByTime(posts) ==
    \A a, b \in 1..Len(posts) :
        a < b => posts[a].scheduledTime <= posts[b].scheduledTime

\* C8: starting from the empty store, the scheduled posts are sorted
\* ascending by scheduledTime in every state and are as many as the
\* confirmations made with a pending post; each such confirmation adds one
\* post with the pending platform and content and the given time and keeps
\* the posts already stored, and nothing else changes the collection.
C8_StoreSortedAndComplete ==
    /\ [](SortedByTime(scheduledPosts) /\ Len(scheduledPosts) = confirmations)
    /\ [][/\ \A t \in Times, now \in Clock :
               HandleConfirmSchedule(t, now) =>
                  \E k \in 1..Len(scheduledPosts') :
                     /\ scheduledPosts'[k].platform = Get(postToSchedule).platform
                     /\ scheduledPosts'[k].content = Get(postToSchedule).content
                     /\ scheduledPosts'[k].scheduledTime = t
                     /\ RemoveAt(scheduledPosts', k) = scheduledPosts
          /\ scheduledPosts' /= scheduledPosts =>
               (postToSchedule /= None /\ confirmations' = confirmations + 1)]_vars

\* Two confirmations left two posts of different platforms in time order.
C8_Witness ==
    /\ confirmations = 2
    /\ Len(scheduledPosts) = 2
    /\ scheduledPosts[1].scheduledTime < scheduledPosts[2].scheduledTime
    /\ scheduledPosts[1].platform /= scheduledPosts[2].platform

\* C9: when an image call succeeds while the stored result has a
\* graphicText field, the merge sets graphicText.imageUrl to the returned
\* reference and changes nothing else: the stored result keeps its fields,
\* the posts of the other platforms and graphicText.text, and the error slot
\* and the scheduled posts are as before.
C9_MergeChangesOnlyImageUrl ==
    [][\A i \in Invocations :
          (ImageSuccess(i) /\ StoredHasGraphicText) =>
             /\ generatedContent' /= None
             /\ DOMAIN Get(generatedContent') = DOMAIN Get(generatedContent)
             /\ \A f \in DOMAIN Get(generatedContent) \ {"graphicText"} :
                   Get(generatedContent')[f] = Get(generatedContent)[f]
             /\ DOMAIN Get(generatedContent').graphicText = {"text", "imageUrl"}
             /\ Get(generatedContent').graphicText.text =
                   Get(generatedContent).graphicText.text
             /\ Get(generatedContent').graphicText.imageUrl =
                   ImageUrl(i, Get(inv[i].imageArg))
             /\ error' = error
             /\ scheduledPosts' = scheduledPosts]_vars

\* The image of a lone invocation was merged into its own text result.
C9_Witness ==
    \E i \in Invocations :
        /\ inv[i].outcome = "imageOk" /\ Solo(i)
        /\ resultOwner = i
        /\ generatedContent =
             Some([ContentAll EXCEPT
                     !.graphicText = [text |-> "g1", imageUrl |-> ImageUrl(i, "g1")]])
        /\ scheduledPosts /= <<>>

\* C10: when every started text and image call settles, a state is reached
\* from which both loading flags stay false; and the flags are false whenever
\* no invocation is in flight, that is, until the next handleGenerate call
\* that passes validation.
C10_FlagsEventuallyClear ==
    /\ <>[](~isLoading /\ ~isImageLoading)
    /\ [](NoneInFlight => (~isLoading /\ ~isImageLoading))

\* Every invocation has returned, one of them after its image call failed,
\* and both flags are false.
C10_Witness ==
    /\ \A i \in Invocations : inv[i].pc = "done"
    /\ \E i \in Invocations : inv[i].outcome = "imageFailed"
    /\ ~isLoading /\ ~isImageLoading

InvocationsInFlight == {i \in Invocations : InFlight(i)}
StoredHasImageUrl ==
    StoredHasGraphicText /\ "imageUrl" \in DOMAIN Get(generatedContent).graphicText

\* C11: when handleGenerate is called only while isLoading is false, as the
\* disabled Generate button enforces, at most one invocation is in flight at
\* any time, its image stage included (a call is possible only when none is
\* in flight); and an imageUrl in the stored result is the image that the
\* invocation whose text result is stored had made from the stored
\* graphicText.text.
C11_SingleFlightUnderUI ==
    /\ [](/\ Cardinality(InvocationsInFlight) <= 1
          /\ InvocationsInFlight /= {} => isLoading
          /\ StoredHasImageUrl =>
                /\ resultOwner \in Invocations
                /\ Get(generatedContent).graphicText.imageUrl =
                     ImageUrl(resultOwner, Get(generatedContent).graphicText.text))
    /\ [][HandleGenerate => InvocationsInFlight = {}]_vars

\* A second generation, started from the page after the first had returned
\* with its image, stored its own result and merged its own image into it.
C11_Witness ==
    /\ inv[1].outcome = "imageOk"
    /\ inv[2].outcome = "imageOk"
    /\ resultOwner = 2
    /\ generatedContent =
         Some([ContentAll EXCEPT
                 !.graphicText = [text |-> "g1", imageUrl |-> ImageUrl(2, "g1")]])
    /\ ~isLoading

TextCallPending == \E i \in Invocations : inv[i].pc = "awaitText"
ImageCallPending == \E i \in Invocations : inv[i].pc = "awaitImage"

\* C12 as stated: in every reachable state, overlapping handleGenerate
\* invocations included, isLoading is true if the text call of some
\* invocation is pending and isImageLoading is true if the image call of some
\* invocation is pending.
C12_FlagsReflectCallsInFlight ==
    /\ TextCallPending => isLoading
    /\ ImageCallPending => isImageLoading

\* C12 amended: in every reachable state, for an invocation that no other
\* handleGenerate call overlaps (none was in flight when it started, none was
\* made since), isLoading is true while its text call is pending and
\* isImageLoading is true while its image call is pending.
C12_FlagsReflectCallsOfLoneInvocation ==
    \A i \in Invocations :
        Solo(i) =>
           /\ inv[i].pc = "awaitText" => isLoading
           /\ inv[i].pc = "awaitImage" => isImageLoading

\* After a generation whose image call failed, a second one, started when
\* the first had returned, has its image call pending with the flags set.
C12_Witness ==
    /\ inv[1].outcome = "imageFailed"
    /\ inv[2].pc = "awaitImage" /\ Solo(2)
    /\ isImageLoading /\ isLoading

=============================================================================
